---- MODULE Spec2Model ----
(***************************************************************************)
(* School management: the creation handler (pages/api/schools/add.js), the *)
(* listing handler (pages/api/schools/list.js), the table bootstrap        *)
(* (lib/utilities.js), the lazily built connection pool (lib/database.js)  *)
(* and the client form schema (pages/addSchool.jsx), over a model of the   *)
(* schools table and of the image host.                                    *)
(***************************************************************************)
EXTENDS Integers, Sequences, FiniteSets, TLC

\* ---------------------------------------------------------------- bounds
MaxRows == 2        \* rows the table may hold before no further creation is accepted
MaxUploads == 2     \* uploads the image host stores before no further file is accepted
MaxLeaks == 1       \* CREATE TABLE statements that throw on an open connection

\* ------------------------------------------------------ program constants
connectionLimit == 10

\* ------------------------------------------------------------- JS values
Undefined == "<undefined>"      \* a field or file the parsed form does not have
Null == "<null>"                \* JS null / SQL NULL

Procs == {"p1", "p2"}           \* request slots of the process
SeqProcs == {"p1"}              \* the slot used when requests arrive one at a time

FieldNames == {"name", "address", "city", "state", "contact", "email_id"}

\* a test for undefined alone: the empty string passes it
FalsyUndefinedOnly(v) == v = Undefined

\* !v for a value that is a string or undefined
Falsy(v) == v = Undefined \/ v = ""

\* ----------------------------------------------------- client form schema
Digits == {"0", "1", "2", "3", "4", "5", "6", "7", "8", "9"}

CharAt(s, i) == SubSeq(s, i, i)

\* yup.string().required(): present and not the empty string
Required(v) == v # Undefined /\ v # ""

\* /^[0-9]{10}$/
MatchesContact(s) ==
    /\ s # Undefined
    /\ Len(s) = 10
    /\ \A i \in 1..Len(s) : CharAt(s, i) \in Digits

\* yup.string().email(): one "@" with a non-empty local part before it and a
\* non-empty domain after it, no blank anywhere
IsEmail(s) ==
    /\ s # Undefined
    /\ \E i \in 2..(Len(s) - 1) :
          /\ CharAt(s, i) = "@"
          /\ \A j \in 1..Len(s) : (j # i) => CharAt(s, j) \notin {"@", " "}

MinLen(v, n) == v # Undefined /\ Len(v) >= n

\* the schema object of addSchool.jsx, applied to the form's values
SchemaValid(f, file) ==
    /\ Required(f.name) /\ MinLen(f.name, 2)
    /\ Required(f.address) /\ MinLen(f.address, 5)
    /\ Required(f.city) /\ MinLen(f.city, 2)
    /\ Required(f.state) /\ MinLen(f.state, 2)
    /\ Required(f.contact) /\ MatchesContact(f.contact)
    /\ Required(f.email_id) /\ IsEmail(f.email_id)
    /\ file # Undefined

\* fileFilter of the multer configuration: file.mimetype.startsWith('image/')
FileFilter(mimetype) == Len(mimetype) >= 6 /\ SubSeq(mimetype, 1, 6) = "image/"

\* limits.fileSize of the multer configuration, in MB
fileSizeLimit == 5

\* what formidable allows a file when the options name no maxFileSize, in MB
maxFileSize == 200

\* ------------------------------------------------------------ the inputs
\* a form the schema accepts
OakForm ==
    [name |-> "Oak Elementary", address |-> "1 Oak Rd", city |-> "Springfield",
     state |-> "IL", contact |-> "5551234567", email_id |-> "a@b.com"]

\* all six fields present, the contact five digits long
PineForm ==
    [name |-> "Pine High", address |-> "22 Pine Ave", city |-> "Shelbyville",
     state |-> "OR", contact |-> "12345", email_id |-> "office@pine.edu"]

\* all six fields present, the email without an "@"
ElmForm ==
    [name |-> "Elm Academy", address |-> "3 Elm Street", city |-> "Ogdenville",
     state |-> "NV", contact |-> "0551234567", email_id |-> "not-an-email"]

NoFields == [f \in FieldNames |-> Undefined]

CompleteForms == {OakForm, PineForm, ElmForm}

\* every form with one field missing or empty, and the form with none
IncompleteForms ==
    {NoFields} \cup {[OakForm EXCEPT ![f] = v] : f \in FieldNames, v \in {Undefined, ""}}

\* an uploaded file is known by its MIME type
Files == {Undefined, "image/png", "application/pdf"}

\* a photograph of 6 MB
LargePhoto == "image/jpeg"

\* the size of a file in MB
FileMB(file) == IF file = LargePhoto THEN 6 ELSE IF file = Undefined THEN 0 ELSE 1

AddRequest(method, body, origin, f, file) ==
    [endpoint |-> "add", method |-> method, body |-> body, origin |-> origin,
     fields |-> f, file |-> file]

\* requests sent to /api/schools/add by any client
AddRequests ==
    {AddRequest("POST", "multipart", "direct", f, fl) : f \in CompleteForms, fl \in Files}
    \cup {AddRequest("POST", "multipart", "direct", f, "image/png") : f \in IncompleteForms}
    \cup {AddRequest("POST", "multipart", "direct", NoFields, Undefined),
          AddRequest("POST", "malformed", "direct", NoFields, Undefined),
          AddRequest("GET", "none", "direct", NoFields, Undefined),
          AddRequest("PUT", "multipart", "direct", OakForm, "image/png"),
          AddRequest("POST", "multipart", "direct", OakForm, LargePhoto)}

\* what onSubmit of the form page sends: only what the schema lets through
FormRequests ==
    {AddRequest("POST", "multipart", "form", x[1], x[2]) :
        x \in {y \in (CompleteForms \cup IncompleteForms) \X Files :
                  SchemaValid(y[1], y[2])}}

\* requests sent to /api/schools/list
ListRequests ==
    {[endpoint |-> "list", method |-> m, body |-> "none", origin |-> "direct",
      fields |-> NoFields, file |-> Undefined] : m \in {"GET", "POST", "DELETE"}}

NoRequest ==
    [endpoint |-> "none", method |-> "none", body |-> "none", origin |-> "none",
     fields |-> NoFields, file |-> Undefined]

\* ------------------------------------------------------------- the store
\* the longest run of digits a string starts with
NumericPrefix(s) ==
    LET k == CHOOSE n \in 0..Len(s) :
                 /\ \A i \in 1..n : CharAt(s, i) \in Digits
                 /\ (n = Len(s) \/ CharAt(s, n + 1) \notin Digits)
    IN  SubSeq(s, 1, k)

\* a run of digits without its leading zeros ("0" when nothing is left)
StripZeros(d) ==
    LET z == CHOOSE n \in 0..Len(d) :
                 /\ \A i \in 1..n : CharAt(d, i) = "0"
                 /\ (n = Len(d) \/ CharAt(d, n + 1) # "0")
    IN  IF z = Len(d) THEN "0" ELSE SubSeq(d, z + 1, Len(d))

\* the value a BIGINT column takes from a string parameter, written in decimal
ToBigInt(s) == StripZeros(NumericPrefix(s))

\* the URL the image host returns for its n-th stored upload
SecureUrl(n) == "https://res.cloudinary.com/school-images/" \o ToString(n)

\* id INT AUTO_INCREMENT: the counter after a row took the value `counter`
AutoIncrementStuck(counter) == counter

AutoIncrement(counter) == counter + 1

\* NewRow with the city and state parameters in each other's place
NewRowSwapped(id, f, image, ts) ==
    [id |-> id, name |-> f.name, address |-> f.address, city |-> f.state,
     state |-> f.city, contact |-> ToBigInt(f.contact), image |-> image,
     email_id |-> f.email_id, created_at |-> ts]

\* NewRow that stores the path of the uploaded temporary file, not the URL
NewRowFilePath(id, f, image, ts) ==
    [id |-> id, name |-> f.name, address |-> f.address, city |-> f.city,
     state |-> f.state, contact |-> ToBigInt(f.contact),
     image |-> IF image = Null THEN Null ELSE "/tmp/upload",
     email_id |-> f.email_id, created_at |-> ts]

\* the row INSERT INTO schools (name, address, city, state, contact, image,
\* email_id) writes: id from AUTO_INCREMENT, created_at from CURRENT_TIMESTAMP
NewRow(id, f, image, ts) ==
    [id |-> id, name |-> f.name, address |-> f.address, city |-> f.city,
     state |-> f.state, contact |-> ToBigInt(f.contact), image |-> image,
     email_id |-> f.email_id, created_at |-> ts]

\* SELECT *
ProjectionAll(row) == row

\* SELECT id, name, address, city, image
Projection(row) ==
    [id |-> row.id, name |-> row.name, address |-> row.address, city |-> row.city,
     image |-> row.image]

\* ORDER BY created_at DESC
OrderedByCreatedAt(s) ==
    \A i \in 1..Len(s) : \A j \in 1..Len(s) :
        i < j => s[i].created_at >= s[j].created_at

RowOrders(n) ==
    {f \in [1..n -> 1..n] : \A i \in 1..n : \A j \in 1..n : f[i] = f[j] => i = j}

\* SelectResults of a query that groups the rows by name: one row per name
SelectResultsDistinct(t) ==
    LET keep == {k \in 1..Len(t) : \A j \in 1..(k - 1) : t[j].name # t[k].name}
        u == [i \in 1..Cardinality(keep) |->
                 t[CHOOSE k \in keep : Cardinality({j \in keep : j < k}) = i - 1]]
    IN  {[i \in 1..Len(u) |-> Projection(u[f[i]])] :
            f \in {g \in RowOrders(Len(u)) :
                      OrderedByCreatedAt([i \in 1..Len(u) |-> u[g[i]]])}}

\* every result the SELECT of list.js may return on table t: all rows, sorted
\* on created_at alone (rows of one second come in any order)
SelectResults(t) ==
    {[i \in 1..Len(t) |-> Projection(t[f[i]])] :
        f \in {g \in RowOrders(Len(t)) :
                  OrderedByCreatedAt([i \in 1..Len(t) |-> t[g[i]]])}}

\* ------------------------------------------------------------- the state
VARIABLES
    pool,         \* lib/database.js `pool`: how many times createPool has run
    inUse,        \* connections taken from the pool and not released
    tableExists,  \* the schools table exists in the database
    rows,         \* the rows of the table, in insertion order
    nextId,       \* the table's AUTO_INCREMENT counter
    now,          \* the second of the store's clock at its last reading
    uploads,      \* files the image host has stored so far
    req,          \* per slot: the request being handled
    pc,           \* per slot: where its handler stands
    imageUrl,     \* per slot: add.js `imageUrl`
    res,          \* per slot: the response sent
    trace,        \* per slot: what the handler has done to store and host
    returned,     \* the schoolId of every 201 response, oldest first
    acked,        \* what every 201 response acknowledged: id and submitted values
    page          \* the ShowSchools page in one browser: its React state

dbVars == <<tableExists, rows, nextId, now>>
poolVars == <<pool, inUse>>
slotVars == <<req, pc, imageUrl, res, trace>>
histVars == <<returned, acked>>
serverVars == <<pool, inUse, tableExists, rows, nextId, now, uploads,
                req, pc, imageUrl, res, trace, returned, acked>>
vars == <<serverVars, page>>

NoResponse == [status |-> 0, message |-> Undefined, schoolId |-> Undefined, list |-> <<>>]

NoTrace ==
    [uploadCalls |-> 0, uploadsOk |-> 0, statements |-> 0, insertCalls |-> 0,
     inserted |-> {}, rowsBefore |-> 0, ackedBefore |-> {},
     selectCalls |-> 0, caught |-> Undefined, storeErrors |-> 0,
     bootstrapErrors |-> 0, tableBefore |-> FALSE, rowsSeen |-> <<>>,
     poolBefore |-> 0, inUseBefore |-> 0]

\* ---------------------------------------- the ShowSchools page: its state
\* clicks on 'Try Again' the model follows
MaxRetries == 2

\* useState([]), useState(true), useState(''); inFlight counts the calls of
\* fetchSchools that await their response and sent tells that the GET of one
\* of them is with the server, retries counts the clicks on 'Try Again', last
\* is how the latest call of fetchSchools ended
NewPage ==
    [mounted |-> FALSE, schools |-> <<>>, loading |-> TRUE, error |-> "",
     inFlight |-> 0, sent |-> FALSE, retries |-> 0, last |-> "none"]

Init ==
    /\ page = NewPage
    /\ pool = 0
    /\ inUse = 0
    /\ tableExists = FALSE
    /\ rows = <<>>
    /\ nextId = 1
    /\ now = 1
    /\ uploads = 0
    /\ req = [p \in Procs |-> NoRequest]
    /\ pc = [p \in Procs |-> "idle"]
    /\ imageUrl = [p \in Procs |-> Null]
    /\ res = [p \in Procs |-> NoResponse]
    /\ trace = [p \in Procs |-> NoTrace]
    /\ returned = <<>>
    /\ acked = {}

\* ------------------------------------------------------------- responses
Respond(status, message) ==
    [status |-> status, message |-> message, schoolId |-> Undefined, list |-> <<>>]

MethodNotAllowed == Respond(405, "Method not allowed")
FieldsRequired == Respond(400, "All fields are required")
InternalError == Respond(500, "Internal server error")

\* a catch block that sends the text of the error it caught
CatchEcho(error) == Respond(500, error)

\* the catch blocks of both handlers: console.error(..., error) and a 500 that
\* does not depend on the error
Catch(error) == InternalError

\* the message of the error a failed statement throws
StatementError(exists) ==
    IF exists THEN "connect ECONNREFUSED" ELSE "Table 'schools' doesn't exist"

Created(id) ==
    [status |-> 201, message |-> "School added successfully", schoolId |-> id,
     list |-> <<>>]

\* a listing that answers 404 when there is nothing to list
ListedOrNotFound(result) ==
    IF result = <<>> THEN Respond(404, "No schools found")
    ELSE [status |-> 200, message |-> Undefined, schoolId |-> Undefined, list |-> result]

Listed(result) ==
    [status |-> 200, message |-> Undefined, schoolId |-> Undefined, list |-> result]

\* getPool() without the `if (!pool)` test: createPool runs at every call
GetPoolAlways == pool + 1

\* ---------------------------------------------------------- the handlers
\* getPool(): createPool runs only while `pool` is unset
GetPool == IF pool = 0 THEN 1 ELSE pool

\* FieldMissing without its !state disjunct
FieldMissingNoState(f) ==
    \/ Falsy(f.name) \/ Falsy(f.address) \/ Falsy(f.city)
    \/ Falsy(f.contact) \/ Falsy(f.email_id)

\* FieldMissing with the form schema's contact pattern added
FieldMissingOrContact(f) ==
    \/ Falsy(f.name) \/ Falsy(f.address) \/ Falsy(f.city)
    \/ Falsy(f.state) \/ Falsy(f.contact) \/ Falsy(f.email_id)
    \/ ~MatchesContact(f.contact)

\* FieldMissing with the form schema's email check added
FieldMissingOrEmail(f) ==
    \/ Falsy(f.name) \/ Falsy(f.address) \/ Falsy(f.city)
    \/ Falsy(f.state) \/ Falsy(f.contact) \/ Falsy(f.email_id)
    \/ ~IsEmail(f.email_id)

\* add.js line 42: !name || !address || !city || !state || !contact || !email_id
FieldMissing(f) ==
    \/ Falsy(f.name) \/ Falsy(f.address) \/ Falsy(f.city)
    \/ Falsy(f.state) \/ Falsy(f.contact) \/ Falsy(f.email_id)

\* insertId read off the counter after the INSERT advanced it
InsertIdNext(counter) == counter + 1

\* the id of the newest row before this INSERT, as a SELECT MAX(id) sent ahead
\* of the INSERT would report it
InsertIdPrevious(counter) == IF counter > 1 THEN counter - 1 ELSE counter

\* dbResult.insertId: the id AUTO_INCREMENT gave the row of this INSERT
InsertId(counter) == counter

\* CURRENT_TIMESTAMP at an INSERT: the second of the last reading, or a later
\* one (only the order and the equality of timestamps are observed)
ClockReadings ==
    IF \E i \in 1..Len(rows) : rows[i].created_at = now THEN {now, now + 1} ELSE {now}

\* slots whose creation request may still upload or insert
AddsInFlight ==
    {q \in Procs : req[q].endpoint = "add" /\ pc[q] \in {"bootstrap", "parse", "upload", "insert"}}

\* the model stops taking creations that could outgrow MaxRows or MaxUploads
Accepting(p, r) ==
    (r.endpoint = "add" /\ r.method = "POST") =>
        /\ Len(rows) + Cardinality(AddsInFlight \ {p}) < MaxRows
        /\ r.file # Undefined =>
              uploads + Cardinality({q \in AddsInFlight \ {p} : req[q].file # Undefined})
                  < MaxUploads

\* Start without the method check
StartAnyMethod(p, r, allowed) ==
    /\ pc[p] = "idle"
    /\ Accepting(p, r)
    /\ req' = [req EXCEPT ![p] = r]
    /\ trace' = [trace EXCEPT ![p] =
                    [NoTrace EXCEPT !.rowsBefore = Len(rows), !.ackedBefore = acked,
                                    !.tableBefore = tableExists, !.rowsSeen = rows,
                                    !.poolBefore = pool, !.inUseBefore = inUse]]
    /\ res' = res
    /\ pc' = [pc EXCEPT ![p] = "bootstrap"]
    /\ UNCHANGED <<poolVars, dbVars, uploads, imageUrl, histVars>>
    /\ UNCHANGED page

\* a request reaches a handler: the method check that opens add.js and list.js
Start(p, r, allowed) ==
    /\ pc[p] = "idle"
    /\ Accepting(p, r)
    /\ req' = [req EXCEPT ![p] = r]
    /\ trace' = [trace EXCEPT ![p] =
                    [NoTrace EXCEPT !.rowsBefore = Len(rows), !.ackedBefore = acked,
                                    !.tableBefore = tableExists, !.rowsSeen = rows,
                                    !.poolBefore = pool, !.inUseBefore = inUse]]
    /\ IF r.method # allowed
       THEN /\ res' = [res EXCEPT ![p] = MethodNotAllowed]
            /\ pc' = [pc EXCEPT ![p] = "done"]
       ELSE /\ res' = res
            /\ pc' = [pc EXCEPT ![p] = "bootstrap"]
    /\ UNCHANGED <<poolVars, dbVars, uploads, imageUrl, histVars>>
    /\ UNCHANGED page

AddStart(p, requests) == \E r \in requests : Start(p, r, "POST")

ListStart(p, requests) == \E r \in requests : Start(p, r, "GET")

\* createSchoolsTable() with DROP TABLE IF EXISTS before the CREATE TABLE
CreateSchoolsTableFresh(p, leaks) ==
    /\ pc[p] = "bootstrap"
    /\ inUse < connectionLimit
    /\ pool' = GetPool
    /\ \E outcome \in {"created", "no connection", "statement failed"} :
          /\ outcome = "statement failed" => inUse < leaks
          /\ tableExists' = (tableExists \/ outcome = "created")
          /\ rows' = IF outcome = "created" THEN <<>> ELSE rows
          /\ inUse' = IF outcome = "statement failed" THEN inUse + 1 ELSE inUse
          /\ trace' = [trace EXCEPT ![p].statements =
                              IF outcome = "no connection" THEN @ ELSE @ + 1,
                          ![p].storeErrors =
                              IF outcome = "created" THEN @ ELSE @ + 1,
                          ![p].bootstrapErrors =
                              IF outcome = "created" THEN @ ELSE @ + 1]
    /\ pc' = [pc EXCEPT ![p] = IF req[p].endpoint = "add" THEN "parse" ELSE "select"]
    /\ UNCHANGED <<nextId, now, uploads, req, imageUrl, res, histVars>>
    /\ UNCHANGED page

\* createSchoolsTable() that rethrows: a failed bootstrap ends the request
\* in the handler's catch
CreateSchoolsTableRethrow(p, leaks) ==
    /\ pc[p] = "bootstrap"
    /\ inUse < connectionLimit
    /\ pool' = GetPool
    /\ \E outcome \in {"created", "no connection", "statement failed"} :
          /\ outcome = "statement failed" => inUse < leaks
          /\ tableExists' = (tableExists \/ outcome = "created")
          /\ inUse' = IF outcome = "statement failed" THEN inUse + 1 ELSE inUse
          /\ trace' = [trace EXCEPT ![p].statements =
                              IF outcome = "no connection" THEN @ ELSE @ + 1,
                          ![p].storeErrors =
                              IF outcome = "created" THEN @ ELSE @ + 1,
                          ![p].bootstrapErrors =
                              IF outcome = "created" THEN @ ELSE @ + 1]
          /\ IF outcome = "created"
             THEN /\ pc' = [pc EXCEPT ![p] =
                               IF req[p].endpoint = "add" THEN "parse" ELSE "select"]
                  /\ res' = res
             ELSE /\ pc' = [pc EXCEPT ![p] = "done"]
                  /\ res' = [res EXCEPT ![p] = InternalError]
    /\ UNCHANGED <<rows, nextId, now, uploads, req, imageUrl, histVars>>
    /\ UNCHANGED page

\* createSchoolsTable(): every error is caught and logged, none is rethrown;
\* connection.release() is skipped when the CREATE TABLE statement throws.
\* `leaks` caps how many statements throw on an open connection.
CreateSchoolsTable(p, leaks) ==
    /\ pc[p] = "bootstrap"
    /\ inUse < connectionLimit
    /\ pool' = GetPool
    /\ \E outcome \in {"created", "no connection", "statement failed"} :
          /\ outcome = "statement failed" => inUse < leaks
          /\ tableExists' = (tableExists \/ outcome = "created")
          /\ inUse' = IF outcome = "statement failed" THEN inUse + 1 ELSE inUse
          /\ trace' = [trace EXCEPT ![p].statements =
                              IF outcome = "no connection" THEN @ ELSE @ + 1,
                          ![p].storeErrors =
                              IF outcome = "created" THEN @ ELSE @ + 1,
                          ![p].bootstrapErrors =
                              IF outcome = "created" THEN @ ELSE @ + 1]
    /\ pc' = [pc EXCEPT ![p] = IF req[p].endpoint = "add" THEN "parse" ELSE "select"]
    /\ UNCHANGED <<rows, nextId, now, uploads, req, imageUrl, res, histVars>>
    /\ UNCHANGED page

\* AddParse that sends every complete form to the upload, file or no file
AddParseAlwaysUpload(p) ==
    /\ pc[p] = "parse"
    /\ IF req[p].body # "multipart"
       THEN /\ res' = [res EXCEPT ![p] = InternalError]
            /\ pc' = [pc EXCEPT ![p] = "done"]
       ELSE IF FieldMissing(req[p].fields)
       THEN /\ res' = [res EXCEPT ![p] = FieldsRequired]
            /\ pc' = [pc EXCEPT ![p] = "done"]
       ELSE /\ res' = res
            /\ pc' = [pc EXCEPT ![p] = "upload"]
    /\ UNCHANGED <<poolVars, dbVars, uploads, req, imageUrl, trace, histVars>>
    /\ UNCHANGED page

\* AddParse that checks the required fields only of a form without a file
AddParseUploadFirst(p) ==
    /\ pc[p] = "parse"
    /\ IF req[p].body # "multipart"
       THEN /\ res' = [res EXCEPT ![p] = InternalError]
            /\ pc' = [pc EXCEPT ![p] = "done"]
       ELSE IF req[p].file # Undefined
       THEN /\ res' = res
            /\ pc' = [pc EXCEPT ![p] = "upload"]
       ELSE IF FieldMissing(req[p].fields)
       THEN /\ res' = [res EXCEPT ![p] = FieldsRequired]
            /\ pc' = [pc EXCEPT ![p] = "done"]
       ELSE /\ res' = res
            /\ pc' = [pc EXCEPT ![p] = "insert"]
    /\ UNCHANGED <<poolVars, dbVars, uploads, req, imageUrl, trace, histVars>>
    /\ UNCHANGED page

\* form.parse(req) and the required-field check
AddParse(p) ==
    /\ pc[p] = "parse"
    /\ IF req[p].body # "multipart" \/ FileMB(req[p].file) > maxFileSize
       THEN /\ res' = [res EXCEPT ![p] = Catch("no multipart boundary")]
            /\ trace' = [trace EXCEPT ![p].caught = "no multipart boundary"]
            /\ pc' = [pc EXCEPT ![p] = "done"]
       ELSE IF FieldMissing(req[p].fields)
       THEN /\ res' = [res EXCEPT ![p] = FieldsRequired]
            /\ pc' = [pc EXCEPT ![p] = "done"]
            /\ trace' = trace
       ELSE /\ res' = res
            /\ pc' = [pc EXCEPT ![p] = IF req[p].file # Undefined THEN "upload" ELSE "insert"]
            /\ trace' = trace
    /\ UNCHANGED <<poolVars, dbVars, uploads, req, imageUrl, histVars>>
    /\ UNCHANGED page

\* AddUpload that carries on to the INSERT, imageUrl still null, when the
\* upload throws
AddUploadSwallowed(p) ==
    /\ pc[p] = "upload"
    /\ \/ /\ uploads' = uploads + 1
          /\ imageUrl' = [imageUrl EXCEPT ![p] = SecureUrl(uploads + 1)]
          /\ trace' = [trace EXCEPT ![p].uploadCalls = @ + 1, ![p].uploadsOk = @ + 1]
       \/ /\ trace' = [trace EXCEPT ![p].uploadCalls = @ + 1]
          /\ UNCHANGED <<uploads, imageUrl>>
    /\ pc' = [pc EXCEPT ![p] = "insert"]
    /\ UNCHANGED <<poolVars, dbVars, req, res, histVars>>
    /\ UNCHANGED page

\* AddUpload that calls the image host again after a failed call
AddUploadRetry(p) ==
    /\ pc[p] = "upload"
    /\ \/ /\ uploads' = uploads + 1
          /\ imageUrl' = [imageUrl EXCEPT ![p] = SecureUrl(uploads + 1)]
          /\ trace' = [trace EXCEPT ![p].uploadCalls = @ + 1, ![p].uploadsOk = @ + 1]
          /\ pc' = [pc EXCEPT ![p] = "insert"]
          /\ res' = res
       \/ /\ trace' = [trace EXCEPT ![p].uploadCalls = @ + 1]
          /\ UNCHANGED <<uploads, imageUrl, res, pc>>
    /\ UNCHANGED <<poolVars, dbVars, req, histVars>>
    /\ UNCHANGED page

\* cloudinary.uploader.upload(file.filepath, {folder: 'school-images'})
AddUpload(p) ==
    /\ pc[p] = "upload"
    /\ \/ /\ uploads' = uploads + 1
          /\ imageUrl' = [imageUrl EXCEPT ![p] = SecureUrl(uploads + 1)]
          /\ trace' = [trace EXCEPT ![p].uploadCalls = @ + 1, ![p].uploadsOk = @ + 1]
          /\ pc' = [pc EXCEPT ![p] = "insert"]
          /\ res' = res
       \/ /\ trace' = [trace EXCEPT ![p].uploadCalls = @ + 1,
                                   ![p].caught = "Upload failed"]
          /\ res' = [res EXCEPT ![p] = Catch("Upload failed")]
          /\ pc' = [pc EXCEPT ![p] = "done"]
          /\ UNCHANGED <<uploads, imageUrl>>
    /\ UNCHANGED <<poolVars, dbVars, req, histVars>>
    /\ UNCHANGED page

\* AddInsert with ON DUPLICATE KEY UPDATE on a unique name: a second school
\* of the same name overwrites the first
AddInsertUpsert(p) ==
    /\ pc[p] = "insert"
    /\ inUse < connectionLimit
    /\ pool' = GetPool
    /\ pc' = [pc EXCEPT ![p] = "done"]
    /\ \/ /\ tableExists
          /\ \E ts \in ClockReadings :
                /\ now' = ts
                /\ rows' =
                      LET r == NewRow(nextId, req[p].fields, imageUrl[p], ts)
                          dup == {k \in 1..Len(rows) : rows[k].name = r.name}
                      IN  IF dup = {} THEN Append(rows, r)
                          ELSE [k \in 1..Len(rows) |->
                                   IF k \in dup THEN [r EXCEPT !.id = rows[k].id]
                                   ELSE rows[k]]
          /\ nextId' = AutoIncrement(nextId)
          /\ res' = [res EXCEPT ![p] = Created(InsertId(nextId))]
          /\ trace' = [trace EXCEPT ![p].statements = @ + 1, ![p].insertCalls = @ + 1,
                                   ![p].inserted = @ \cup {nextId}]
          /\ returned' = Append(returned, InsertId(nextId))
          /\ acked' = acked \cup
                {[id |-> InsertId(nextId), name |-> req[p].fields.name,
                  address |-> req[p].fields.address, city |-> req[p].fields.city,
                  image |-> imageUrl[p]]}
       \/ /\ res' = [res EXCEPT ![p] = Catch(StatementError(tableExists))]
          /\ trace' = [trace EXCEPT ![p].statements = @ + 1, ![p].insertCalls = @ + 1,
                                   ![p].storeErrors = @ + 1,
                                   ![p].caught = StatementError(tableExists)]
          /\ UNCHANGED <<rows, nextId, now, returned, acked>>
    /\ UNCHANGED <<inUse, tableExists, uploads, req, imageUrl>>
    /\ UNCHANGED page

\* AddInsert that removes the uploaded image from the host when the INSERT
\* fails (cloudinary.uploader.destroy in the catch)
AddInsertCompensating(p) ==
    /\ pc[p] = "insert"
    /\ inUse < connectionLimit
    /\ pool' = GetPool
    /\ pc' = [pc EXCEPT ![p] = "done"]
    /\ \/ /\ tableExists
          /\ \E ts \in ClockReadings :
                /\ now' = ts
                /\ rows' = Append(rows, NewRow(nextId, req[p].fields, imageUrl[p], ts))
          /\ nextId' = AutoIncrement(nextId)
          /\ res' = [res EXCEPT ![p] = Created(InsertId(nextId))]
          /\ trace' = [trace EXCEPT ![p].statements = @ + 1, ![p].insertCalls = @ + 1,
                                   ![p].inserted = @ \cup {nextId}]
          /\ uploads' = uploads
          /\ returned' = Append(returned, InsertId(nextId))
          /\ acked' = acked \cup
                {[id |-> InsertId(nextId), name |-> req[p].fields.name,
                  address |-> req[p].fields.address, city |-> req[p].fields.city,
                  image |-> imageUrl[p]]}
       \/ /\ res' = [res EXCEPT ![p] = Catch(StatementError(tableExists))]
          /\ trace' = [trace EXCEPT ![p].statements = @ + 1, ![p].insertCalls = @ + 1,
                                   ![p].storeErrors = @ + 1,
                                   ![p].caught = StatementError(tableExists)]
          /\ uploads' = IF imageUrl[p] # Null THEN uploads - 1 ELSE uploads
          /\ UNCHANGED <<rows, nextId, now, returned, acked>>
    /\ UNCHANGED <<inUse, tableExists, req, imageUrl>>
    /\ UNCHANGED page

\* pool.execute('INSERT INTO schools ...') and the 201 response. The statement
\* fails when the store cannot be reached or the table is missing.
AddInsert(p) ==
    /\ pc[p] = "insert"
    /\ inUse < connectionLimit
    /\ pool' = GetPool
    /\ pc' = [pc EXCEPT ![p] = "done"]
    /\ \/ /\ tableExists
          /\ \E ts \in ClockReadings :
                /\ now' = ts
                /\ rows' = Append(rows, NewRow(nextId, req[p].fields, imageUrl[p], ts))
          /\ nextId' = AutoIncrement(nextId)
          /\ res' = [res EXCEPT ![p] = Created(InsertId(nextId))]
          /\ trace' = [trace EXCEPT ![p].statements = @ + 1, ![p].insertCalls = @ + 1,
                                   ![p].inserted = @ \cup {nextId}]
          /\ returned' = Append(returned, InsertId(nextId))
          /\ acked' = acked \cup
                {[id |-> InsertId(nextId), name |-> req[p].fields.name,
                  address |-> req[p].fields.address, city |-> req[p].fields.city,
                  image |-> imageUrl[p]]}
       \/ /\ res' = [res EXCEPT ![p] = Catch(StatementError(tableExists))]
          /\ trace' = [trace EXCEPT ![p].statements = @ + 1, ![p].insertCalls = @ + 1,
                                   ![p].storeErrors = @ + 1,
                                   ![p].caught = StatementError(tableExists)]
          /\ UNCHANGED <<rows, nextId, now, returned, acked>>
    /\ UNCHANGED <<inUse, tableExists, uploads, req, imageUrl>>
    /\ UNCHANGED page

\* ListSelect whose catch answers 200 with an empty array
ListSelectSwallowed(p) ==
    /\ pc[p] = "select"
    /\ inUse < connectionLimit
    /\ pool' = GetPool
    /\ pc' = [pc EXCEPT ![p] = "done"]
    /\ \/ /\ tableExists
          /\ \E result \in SelectResults(rows) : res' = [res EXCEPT ![p] = Listed(result)]
          /\ trace' = [trace EXCEPT ![p].statements = @ + 1, ![p].selectCalls = @ + 1]
       \/ /\ res' = [res EXCEPT ![p] = Listed(<<>>)]
          /\ trace' = [trace EXCEPT ![p].statements = @ + 1, ![p].selectCalls = @ + 1,
                                   ![p].storeErrors = @ + 1]
    /\ UNCHANGED <<inUse, dbVars, uploads, req, imageUrl, histVars>>
    /\ UNCHANGED page

\* pool.execute('SELECT id, name, address, city, image FROM schools ORDER BY
\* created_at DESC') and the 200 response
ListSelect(p) ==
    /\ pc[p] = "select"
    /\ inUse < connectionLimit
    /\ pool' = GetPool
    /\ pc' = [pc EXCEPT ![p] = "done"]
    /\ \/ /\ tableExists
          /\ \E result \in SelectResults(rows) : res' = [res EXCEPT ![p] = Listed(result)]
          /\ trace' = [trace EXCEPT ![p].statements = @ + 1, ![p].selectCalls = @ + 1]
       \/ /\ res' = [res EXCEPT ![p] = Catch(StatementError(tableExists))]
          /\ trace' = [trace EXCEPT ![p].statements = @ + 1, ![p].selectCalls = @ + 1,
                                   ![p].storeErrors = @ + 1,
                                   ![p].caught = StatementError(tableExists)]
    /\ UNCHANGED <<inUse, dbVars, uploads, req, imageUrl, histVars>>
    /\ UNCHANGED page

\* the client has its response; the slot takes the next request
Deliver(p) ==
    /\ pc[p] = "done"
    /\ pc' = [pc EXCEPT ![p] = "idle"]
    /\ req' = [req EXCEPT ![p] = NoRequest]
    /\ imageUrl' = [imageUrl EXCEPT ![p] = Null]
    /\ res' = [res EXCEPT ![p] = NoResponse]
    /\ trace' = [trace EXCEPT ![p] = NoTrace]
    /\ UNCHANGED <<poolVars, dbVars, uploads, histVars>>
    /\ UNCHANGED page

\* requests arrive one at a time
Next ==
    \E p \in SeqProcs :
        \/ AddStart(p, AddRequests \cup FormRequests)
        \/ ListStart(p, ListRequests)
        \/ CreateSchoolsTable(p, MaxLeaks)
        \/ AddParse(p)
        \/ AddUpload(p)
        \/ AddInsert(p)
        \/ ListSelect(p)
        \/ Deliver(p)

Spec == Init /\ [][Next]_vars

\* ------------------------------------------- requests handled concurrently
\* what the two slots are sent while they overlap: a complete form with and
\* without a file, an incomplete one, a wrong method, and the listing
ConcAddRequests ==
    {AddRequest("POST", "multipart", "direct", OakForm, fl) : fl \in {Undefined, "image/png"}}
    \cup {AddRequest("POST", "multipart", "direct", NoFields, Undefined),
          AddRequest("GET", "none", "direct", NoFields, Undefined)}

ConcListRequests == {r \in ListRequests : r.method \in {"GET", "POST"}}

\* rows the store holds at most while requests overlap
MaxConcRows == 1

\* connections left unreleased at most while requests overlap
MaxConcLeaks == 0

\* every await of a handler is a point where the other request may run
ConcNext ==
    \E p \in Procs :
        \/ /\ Len(rows) + Cardinality(AddsInFlight \ {p}) < MaxConcRows
           /\ AddStart(p, ConcAddRequests)
        \/ ListStart(p, ConcListRequests)
        \/ CreateSchoolsTable(p, MaxConcLeaks)
        \/ AddParse(p)
        \/ AddUpload(p)
        \/ AddInsert(p)
        \/ ListSelect(p)
        \/ Deliver(p)

ConcSpec == Init /\ [][ConcNext]_vars

\* ------------------------------------------ creations handled concurrently
\* rows the store holds at most while creations overlap
MaxCreateRows == 2

\* the same complete form, with and without a file
CreateRequests ==
    {AddRequest("POST", "multipart", "direct", OakForm, fl) : fl \in {Undefined, "image/png"}}

\* two creation requests, each free to run while the other awaits its
\* bootstrap, its upload or its INSERT
CreateNext ==
    \E p \in Procs :
        \/ /\ Len(rows) + Cardinality(AddsInFlight \ {p}) < MaxCreateRows
           /\ AddStart(p, CreateRequests)
        \/ CreateSchoolsTable(p, MaxConcLeaks)
        \/ AddParse(p)
        \/ AddUpload(p)
        \/ AddInsert(p)
        \/ Deliver(p)

CreateSpec == Init /\ [][CreateNext]_vars

\* ------------------------------------- requests whose bootstrap may throw
\* a listing and a creation that is turned away: neither writes a row
LeakAddRequests == {AddRequest("POST", "multipart", "direct", NoFields, Undefined)}

LeakListRequests == {r \in ListRequests : r.method = "GET"}

\* what a handler does once its request is in: every one of these steps ends
\* when the store answers
HandlerStep(p) ==
    \/ CreateSchoolsTable(p, connectionLimit)
    \/ AddParse(p)
    \/ ListSelect(p)
    \/ Deliver(p)

\* requests one after another, the CREATE TABLE statement free to throw on
\* every one of them
LeakNext ==
    \E p \in SeqProcs :
        \/ AddStart(p, LeakAddRequests)
        \/ ListStart(p, LeakListRequests)
        \/ HandlerStep(p)

\* the store answers every call: a handler step that can be taken is taken
LeakSpec == Init /\ [][LeakNext]_vars /\ WF_vars(\E p \in SeqProcs : HandlerStep(p))

\* ------------------------------------------------ the ShowSchools page
\* what the component returns: the spinner while loading, the error view
\* while error is a non-empty string, the directory otherwise
View(pg) ==
    IF pg.loading THEN "loading" ELSE IF pg.error # "" THEN "error" ELSE "directory"

\* response.ok
Ok(response) == response.status >= 200 /\ response.status <= 299

\* what other clients post while the page is open
PageAddRequests == {AddRequest("POST", "multipart", "direct", OakForm, Undefined)}

\* useEffect(() => { fetchSchools() }, [])
PageMount ==
    /\ ~page.mounted
    /\ page' = [page EXCEPT !.mounted = TRUE, !.inFlight = @ + 1]
    /\ UNCHANGED serverVars

\* onClick={fetchSchools} of the button in the error view
TryAgain ==
    /\ View(page) = "error"
    /\ page.retries < MaxRetries
    /\ page' = [page EXCEPT !.inFlight = @ + 1, !.retries = @ + 1]
    /\ UNCHANGED serverVars

\* fetch('/api/schools/list') leaves the browser
FetchSent(p) ==
    /\ page.inFlight > 0 /\ ~page.sent
    /\ pc[p] = "idle"
    /\ page' = [page EXCEPT !.sent = TRUE]
    /\ UNCHANGED serverVars

\* fetchSchools from `const data = await response.json()` on: setSchools(data)
\* when response.ok, setError otherwise, setLoading(false) in the finally
FetchReturns(p) ==
    /\ page.sent /\ pc[p] = "done"
    /\ page' = IF Ok(res[p])
               THEN [page EXCEPT !.schools = res[p].list, !.loading = FALSE,
                                 !.inFlight = @ - 1, !.sent = FALSE, !.last = "ok"]
               ELSE [page EXCEPT !.error = "Failed to fetch schools",
                                 !.loading = FALSE,
                                 !.inFlight = @ - 1, !.sent = FALSE, !.last = "not ok"]
    /\ UNCHANGED serverVars

\* fetchSchools when fetch or response.json() throws: the response is lost
FetchThrows(p) ==
    /\ page.sent /\ pc[p] = "done"
    /\ page' = [page EXCEPT !.error = "Error fetching schools", !.loading = FALSE,
                            !.inFlight = @ - 1, !.sent = FALSE, !.last = "threw"]
    /\ UNCHANGED serverVars

\* the page and the listing handler that serves it, with other clients
\* posting schools in between
PageNext ==
    \/ PageMount
    \/ TryAgain
    \/ \E p \in SeqProcs :
          \/ FetchSent(p)
          \/ page.sent /\ ListStart(p, LeakListRequests)
          \/ ~page.sent /\ AddStart(p, PageAddRequests)
          \/ CreateSchoolsTable(p, MaxConcLeaks)
          \/ AddParse(p)
          \/ AddInsert(p)
          \/ ListSelect(p)
          \/ FetchReturns(p)
          \/ FetchThrows(p)
          \/ ~page.sent /\ Deliver(p)

PageSpec == Init /\ [][PageNext]_vars

\* ---------------------------------------------------- reading the state
Done(p) == pc[p] = "done"

\* slot p holds a POST to the creation handler
IsCreate(p) == req[p].endpoint = "add" /\ req[p].method = "POST"

\* slot p holds a POST whose multipart body form.parse has accepted
IsSubmission(p) == IsCreate(p) /\ req[p].body = "multipart"

\* at least one of the six text fields is missing or empty
Incomplete(f) == \E n \in FieldNames : f[n] = Undefined \/ f[n] = ""

\* positions of the rows that carry id i
RowsWithId(i) == {k \in 1..Len(rows) : rows[k].id = i}

\* slot p's request has left the table and the image host as it found them
NoSideEffect(p) ==
    /\ trace[p].uploadCalls = 0
    /\ trace[p].insertCalls = 0
    /\ trace[p].inserted = {}
    /\ Len(rows) = trace[p].rowsBefore

C4_NonImageRejected ==
    \A p \in Procs :
        (IsSubmission(p) /\ req[p].file # Undefined /\ ~FileFilter(req[p].file)) =>
            /\ trace[p].uploadCalls = 0
            /\ trace[p].inserted = {}

\* C5: when a file is present and the upload fails, the response is 500 and
\* the request issues no INSERT: no row, with a null image or any other, is
\* written for it.
C5_FailedUploadWritesNothing ==
    \A p \in Procs :
        (IsCreate(p) /\ trace[p].uploadCalls > trace[p].uploadsOk) =>
            /\ Done(p) /\ res[p] = InternalError
            /\ trace[p].insertCalls = 0
            /\ trace[p].inserted = {}
            /\ Len(rows) = trace[p].rowsBefore

C5_Witness ==
    \E p \in Procs :
        /\ Done(p) /\ IsSubmission(p) /\ req[p].file = "image/png"
        /\ trace[p].uploadCalls = 1 /\ trace[p].uploadsOk = 0
        /\ res[p].status = 500
        /\ tableExists

\* C6: a creation whose INSERT succeeds has inserted exactly one row, the last
\* of the table, holding the submitted values and the uploaded URL (null
\* without a file), and is answered 201 with the id the store gave that row as
\* schoolId; no creation is answered 201 without such a row.
C6_CreatedOnceWithStoreId ==
    \A p \in Procs :
        (Done(p) /\ IsCreate(p)) =>
            /\ trace[p].inserted # {} =>
                  /\ Cardinality(trace[p].inserted) = 1
                  /\ trace[p].insertCalls = 1
                  /\ Len(rows) = trace[p].rowsBefore + 1
                  /\ res[p].status = 201
                  /\ res[p].schoolId \in trace[p].inserted
                  /\ RowsWithId(res[p].schoolId) = {Len(rows)}
                  /\ rows[Len(rows)] =
                        NewRow(res[p].schoolId, req[p].fields, imageUrl[p],
                               rows[Len(rows)].created_at)
            /\ res[p].status = 201 => trace[p].inserted # {}

C6_Witness ==
    \E p \in Procs :
        /\ Done(p) /\ IsSubmission(p) /\ req[p].file = "image/png"
        /\ res[p].status = 201 /\ res[p].schoolId = 2
        /\ trace[p].uploadsOk = 1

\* C7: the schoolIds of the 201 responses, in the order the responses were
\* sent, are strictly increasing, and no two rows carry the same id.
C7_IdsIncrease ==
    /\ \A i \in 1..Len(returned) : \A j \in 1..Len(returned) :
          i < j => returned[i] < returned[j]
    /\ \A k \in 1..Len(rows) : \A l \in 1..Len(rows) :
          k # l => rows[k].id # rows[l].id

C7_Witness == Len(returned) = 2 /\ Len(rows) = 2 /\ returned[2] = rows[2].id

\* C8: a complete submission without a file never reaches the image host; it
\* is answered 201, its row stored with image = null, and misses 201 only when
\* its INSERT statement itself fails.
C8_NoFileNoUpload ==
    \A p \in Procs :
        (IsSubmission(p) /\ ~Incomplete(req[p].fields) /\ req[p].file = Undefined) =>
            /\ trace[p].uploadCalls = 0
            /\ Done(p) =>
                  /\ res[p].status \in {201, 500}
                  /\ res[p].status = 201 =>
                        \E k \in RowsWithId(res[p].schoolId) : rows[k].image = Null
                  /\ res[p].status = 500 =>
                        trace[p].insertCalls = 1 /\ trace[p].inserted = {}

C8_Witness ==
    \E p \in Procs :
        /\ Done(p) /\ IsSubmission(p) /\ req[p].file = Undefined
        /\ res[p].status = 201
        /\ \E k \in RowsWithId(res[p].schoolId) : rows[k].image = Null

\* C9: a listing answered 200 holds, for every creation acknowledged with 201
\* before the listing request arrived, exactly one element with that schoolId,
\* and this element carries the submitted name, address and city and the
\* uploaded URL (null when no file was sent).
C9_ListingShowsCreated ==
    \A p \in Procs :
        (Done(p) /\ req[p].endpoint = "list" /\ res[p].status = 200) =>
            \A a \in trace[p].ackedBefore :
                /\ Cardinality({k \in 1..Len(res[p].list) : res[p].list[k].id = a.id}) = 1
                /\ \E k \in 1..Len(res[p].list) : res[p].list[k] = a

C9_Witness ==
    \E p \in Procs :
        /\ Done(p) /\ req[p].endpoint = "list" /\ res[p].status = 200
        /\ Cardinality(trace[p].ackedBefore) = 2
        /\ \E a \in trace[p].ackedBefore : a.image = Null
        /\ \E a \in trace[p].ackedBefore : a.image # Null

\* C10: a listing answered 200 is ordered by created_at descending, rows of
\* equal created_at by id descending: of two creations A then B it shows B
\* first even when both fall in the same second.
C10_TiesByIdDescending ==
    \A p \in Procs :
        (Done(p) /\ req[p].endpoint = "list" /\ res[p].status = 200) =>
            \A i \in 1..Len(res[p].list) : \A j \in 1..Len(res[p].list) :
                i < j =>
                    \A k \in RowsWithId(res[p].list[i].id) :
                    \A l \in RowsWithId(res[p].list[j].id) :
                        \/ rows[k].created_at > rows[l].created_at
                        \/ /\ rows[k].created_at = rows[l].created_at
                           /\ rows[k].id > rows[l].id

\* slot p holds a GET to the listing handler
IsListing(p) == req[p].endpoint = "list" /\ req[p].method = "GET"

\* C11: a GET to the listing handler that finds no rows, the first request of
\* a fresh database included, and whose store calls all succeed is answered
\* 200 with the empty array; it is never answered with an error status.
C11_EmptyStoreListsEmpty ==
    \A p \in Procs :
        (IsListing(p) /\ Done(p) /\ trace[p].rowsSeen = <<>> /\ rows = <<>>
            /\ trace[p].storeErrors = 0) =>
            /\ res[p].status = 200
            /\ res[p].list = <<>>

\* the first request of a fresh database is a listing and it is answered 200 []
C11_Witness ==
    \E p \in Procs :
        /\ IsListing(p) /\ Done(p)
        /\ ~trace[p].tableBefore /\ trace[p].poolBefore = 0 /\ nextId = 1
        /\ trace[p].storeErrors = 0
        /\ res[p].status = 200 /\ res[p].list = <<>>

\* the five columns the listing publishes
ListedColumns == {"id", "name", "address", "city", "image"}

\* C12: every element of a 200 listing has exactly the fields id, name,
\* address, city and image, with the values of one stored row; contact,
\* email_id and state are never part of an element.
C12_ListingColumns ==
    \A p \in Procs :
        (IsListing(p) /\ Done(p) /\ res[p].status = 200) =>
            \A i \in 1..Len(res[p].list) :
                /\ DOMAIN res[p].list[i] = ListedColumns
                /\ {"contact", "email_id", "state"} \cap DOMAIN res[p].list[i] = {}
                /\ \E k \in 1..Len(rows) :
                       \A c \in ListedColumns : res[p].list[i][c] = rows[k][c]

\* a listing of two stored rows, each with contact, email_id and state set
C12_Witness ==
    \E p \in Procs :
        /\ IsListing(p) /\ Done(p) /\ res[p].status = 200
        /\ Len(res[p].list) = 2
        /\ \A k \in 1..Len(rows) :
               rows[k].contact # "" /\ rows[k].email_id # "" /\ rows[k].state # ""

\* C13 as stated: while and after a listing request is handled the table
\* exists exactly if it existed on arrival, the rows are those found on
\* arrival, and no image-host call was made.
C13_ListingReadOnly ==
    \A p \in Procs :
        IsListing(p) =>
            /\ tableExists = trace[p].tableBefore
            /\ rows = trace[p].rowsSeen
            /\ trace[p].uploadCalls = 0

\* C13 amended: a listing request never changes the rows, sends no INSERT and
\* makes no image-host call; a table that existed on arrival still exists, and
\* the one change it can make is to create the table when it was absent, which
\* it has done whenever its bootstrap statement succeeded.
C13_ListingOnlyBootstraps ==
    \A p \in Procs :
        IsListing(p) =>
            /\ rows = trace[p].rowsSeen
            /\ trace[p].insertCalls = 0
            /\ trace[p].inserted = {}
            /\ trace[p].uploadCalls = 0
            /\ trace[p].tableBefore => tableExists
            /\ (tableExists /\ ~trace[p].tableBefore) => trace[p].statements >= 1
            /\ (Done(p) /\ res[p].status = 200) => tableExists

\* a listing that arrived at a database without the table, has created it and
\* is answered 200
C13_Witness ==
    \E p \in Procs :
        /\ IsListing(p) /\ Done(p)
        /\ ~trace[p].tableBefore /\ tableExists
        /\ res[p].status = 200

\* the SELECT of slot p's request has failed
SelectFailed(p) == trace[p].storeErrors > trace[p].bootstrapErrors

\* the list holds one element for every stored row and nothing else
CompleteListing(list) ==
    /\ Len(list) = Len(rows)
    /\ \A k \in 1..Len(rows) : \E i \in 1..Len(list) : list[i].id = rows[k].id

IssuedUrls == {SecureUrl(n) : n \in 1..uploads}

\* C15: one creation request makes at most one upload call and sends at most
\* one INSERT; after a failed upload no INSERT follows; an INSERT of a request
\* that made an upload call comes after that call has returned its URL; so
\* every row whose image is not null holds a URL the image host returned.
C15_OneUploadThenOneInsert ==
    /\ \A p \in Procs :
           IsCreate(p) =>
               /\ trace[p].uploadCalls <= 1
               /\ trace[p].insertCalls <= 1
               /\ trace[p].uploadsOk <= trace[p].uploadCalls
               /\ trace[p].uploadCalls > trace[p].uploadsOk =>
                      (trace[p].insertCalls = 0 /\ Done(p) /\ res[p] = InternalError)
               /\ pc[p] = "upload" => trace[p].insertCalls = 0
               /\ (trace[p].insertCalls = 1 /\ trace[p].uploadCalls = 1) =>
                      (trace[p].uploadsOk = 1 /\ imageUrl[p] \in IssuedUrls)
    /\ \A k \in 1..Len(rows) : rows[k].image # Null => rows[k].image \in IssuedUrls

\* a creation request that made its one upload call and its one INSERT, and
\* whose row holds the returned URL
C15_Witness ==
    \E p \in Procs :
        /\ IsCreate(p) /\ Done(p) /\ res[p].status = 201
        /\ trace[p].uploadCalls = 1 /\ trace[p].insertCalls = 1
        /\ \E k \in 1..Len(rows) :
               rows[k].id \in trace[p].inserted /\ rows[k].image = imageUrl[p]
                   /\ rows[k].image # Null

\* slot p's request has not yet passed the required-field check
BeforeValidation(p) == pc[p] \in {"bootstrap", "parse"}

\* C16 as stated: before the required-field check of a creation request has
\* passed no statement has gone to the store and no upload was made; a request
\* answered 400 has sent no statement.
C16_ValidationBeforeAnyStatement ==
    \A p \in Procs :
        IsCreate(p) =>
            /\ BeforeValidation(p) =>
                   (trace[p].statements = 0 /\ trace[p].uploadCalls = 0)
            /\ (Done(p) /\ res[p].status = 400) => trace[p].statements = 0

\* C16 amended: before the required-field check has passed a creation request
\* has made no upload and sent no INSERT, and the only statement it can have
\* sent is the CREATE TABLE IF NOT EXISTS of the bootstrap; uploads and INSERTs
\* are made for complete forms only; a request answered 400 has sent at most
\* that one statement and has left the rows as it found them.
C16_ValidationBeforeUploadAndInsert ==
    \A p \in Procs :
        IsCreate(p) =>
            /\ BeforeValidation(p) =>
                   /\ trace[p].uploadCalls = 0
                   /\ trace[p].insertCalls = 0
                   /\ trace[p].statements <= 1
            /\ (trace[p].uploadCalls > 0 \/ trace[p].insertCalls > 0) =>
                   (req[p].body = "multipart" /\ ~Incomplete(req[p].fields))
            /\ (Done(p) /\ res[p].status = 400) =>
                   /\ trace[p].statements <= 1
                   /\ trace[p].uploadCalls = 0
                   /\ trace[p].insertCalls = 0
                   /\ rows = trace[p].rowsSeen

\* a request answered 400 whose bootstrap statement created the table
C16_Witness ==
    \E p \in Procs :
        /\ IsCreate(p) /\ Done(p) /\ res[p].status = 400
        /\ trace[p].statements = 1
        /\ ~trace[p].tableBefore /\ tableExists

\* C17: a request answered with a status other than 201 leaves the rows as it
\* found them; a request answered 201 has added exactly one row, whose image
\* is null when no file was sent and otherwise the URL its own successful
\* upload returned; so every stored row has a null image or an issued URL.
C17_AllOrNothing ==
    /\ \A p \in Procs :
           (Done(p) /\ res[p].status # 201) => rows = trace[p].rowsSeen
    /\ \A p \in Procs :
           (Done(p) /\ res[p].status = 201) =>
               /\ IsCreate(p)
               /\ Len(rows) = Len(trace[p].rowsSeen) + 1
               /\ SubSeq(rows, 1, Len(trace[p].rowsSeen)) = trace[p].rowsSeen
               /\ rows[Len(rows)].image = imageUrl[p]
               /\ req[p].file = Undefined => rows[Len(rows)].image = Null
               /\ req[p].file # Undefined =>
                      /\ trace[p].uploadsOk = 1
                      /\ rows[Len(rows)].image \in IssuedUrls
    /\ \A k \in 1..Len(rows) : rows[k].image = Null \/ rows[k].image \in IssuedUrls
    /\ \A j \in 1..Len(rows) : \A k \in 1..Len(rows) :
           (j # k /\ rows[j].image # Null) => rows[j].image # rows[k].image

\* a failed upload after a stored row with an image: the request is answered
\* 500 and the rows are those it found
C17_Witness ==
    \E p \in Procs :
        /\ IsCreate(p) /\ Done(p) /\ res[p].status = 500
        /\ trace[p].uploadCalls = 1 /\ trace[p].uploadsOk = 0
        /\ Len(rows) >= 1 /\ rows[1].image \in IssuedUrls
        /\ rows = trace[p].rowsSeen

\* slot p holds a request whose method its handler does not serve
WrongMethod(p) ==
    \/ req[p].endpoint = "add" /\ req[p].method # "POST"
    \/ req[p].endpoint = "list" /\ req[p].method # "GET"

\* C18: a request to the creation handler with a method other than POST, or
\* to the listing handler with a method other than GET, is answered 405
\* 'Method not allowed' at once: it runs no bootstrap, parses no body, makes
\* no upload and sends no statement; pool, connections, table and rows are
\* what they were on arrival.
C18_WrongMethodIs405 ==
    \A p \in Procs :
        WrongMethod(p) =>
            /\ Done(p)
            /\ res[p].status = 405
            /\ res[p].message = "Method not allowed"
            /\ trace[p].statements = 0
            /\ trace[p].storeErrors = 0
            /\ trace[p].uploadCalls = 0
            /\ trace[p].insertCalls = 0
            /\ imageUrl[p] = Null
            /\ pool = trace[p].poolBefore
            /\ inUse = trace[p].inUseBefore
            /\ tableExists = trace[p].tableBefore
            /\ rows = trace[p].rowsSeen

\* a PUT with a complete form and a file, first request of the process, is
\* answered 405 with the pool not constructed and the table not created
C18_Witness ==
    \E p \in Procs :
        /\ req[p].endpoint = "add" /\ req[p].method = "PUT"
        /\ req[p].file # Undefined /\ ~Incomplete(req[p].fields)
        /\ Done(p) /\ res[p].status = 405
        /\ pool = 0 /\ ~tableExists

\* rows a and b were written from the same six field values
SameSubmission(a, b) ==
    /\ a.name = b.name /\ a.address = b.address /\ a.city = b.city
    /\ a.state = b.state /\ a.contact = b.contact /\ a.email_id = b.email_id

\* C19: creation is not idempotent. Every 201 has added a row of its own, so
\* two successful POSTs of the same field values leave two rows with different
\* ids, and a later listing answered 200 shows both as separate elements.
C19_NotIdempotent ==
    /\ Len(rows) = Len(returned)
    /\ \A j \in 1..Len(rows) : rows[j].id = returned[j]
    /\ \A j \in 1..Len(rows) : \A k \in 1..Len(rows) :
           j # k => rows[j].id # rows[k].id
    /\ \A p \in Procs :
           (IsListing(p) /\ Done(p) /\ res[p].status = 200) =>
               \A j \in 1..Len(trace[p].rowsSeen) : \A k \in 1..Len(trace[p].rowsSeen) :
                   (j # k /\ SameSubmission(trace[p].rowsSeen[j], trace[p].rowsSeen[k])) =>
                       \E m \in 1..Len(res[p].list) : \E n \in 1..Len(res[p].list) :
                           /\ m # n
                           /\ res[p].list[m].id = trace[p].rowsSeen[j].id
                           /\ res[p].list[n].id = trace[p].rowsSeen[k].id
                           /\ res[p].list[m].name = res[p].list[n].name

\* the same form was posted twice, both answered 201, and a listing shows two
\* elements
C19_Witness ==
    \E p \in Procs :
        /\ IsListing(p) /\ Done(p) /\ res[p].status = 200
        /\ Len(returned) = 2 /\ Len(trace[p].rowsSeen) = 2
        /\ SameSubmission(trace[p].rowsSeen[1], trace[p].rowsSeen[2])
        /\ trace[p].rowsSeen[1].image = trace[p].rowsSeen[2].image
        /\ Len(res[p].list) = 2
        /\ res[p].list[1].id # res[p].list[2].id

\* slot p is at a step that calls getPool(): createSchoolsTable, the INSERT
\* of add.js, the SELECT of list.js
CallsGetPool(p) == pc[p] \in {"bootstrap", "insert", "select"}

QueryIssued(p) == trace[p].insertCalls + trace[p].selectCalls >= 1

C22_GenericErrorBody ==
    \A p \in Procs :
        /\ (Done(p) /\ res[p].status = 500) =>
               /\ res[p].message = "Internal server error"
               /\ res[p].schoolId = Undefined
               /\ res[p].list = <<>>
               /\ trace[p].caught # Undefined
               /\ res[p].message # trace[p].caught
        /\ (Done(p) /\ trace[p].caught # Undefined) => res[p].status = 500

\* a 500 for a SELECT on a missing table: the error names the table, the
\* response does not
C22_Witness ==
    \E p \in Procs :
        /\ IsListing(p) /\ Done(p) /\ res[p].status = 500
        /\ trace[p].caught = "Table 'schools' doesn't exist"
        /\ res[p].message = "Internal server error"

\* sequence s starts with sequence t
StartsWith(s, t) == Len(t) <= Len(s) /\ SubSeq(s, 1, Len(t)) = t

\* C23: no step of any handler, the table bootstrap included, deletes a row
\* or changes a column of a row: the rows after a step are the rows before it,
\* each with every column as it was, followed by at most one new row; a table
\* that exists is never dropped.
C23_RowsOnlyGrow ==
    [][/\ StartsWith(rows', rows)
       /\ Len(rows') <= Len(rows) + 1
       /\ tableExists => tableExists']_vars

\* a bootstrap has run again on a table that held two rows, and both rows are
\* still there
C23_Witness ==
    \E p \in Procs :
        /\ Done(p) /\ trace[p].tableBefore /\ Len(trace[p].rowsSeen) = 2
        /\ trace[p].statements >= 1 /\ trace[p].bootstrapErrors = 0
        /\ rows = trace[p].rowsSeen

\* C24: every stored row has a non-empty name, address, city, state, contact
\* and email_id, and every request that has sent an INSERT carried all six
\* fields, none of them the empty string.
C24_StoredFieldsNonEmpty ==
    /\ \A k \in 1..Len(rows) : \A n \in FieldNames :
           rows[k][n] \notin {Undefined, Null, ""}
    /\ \A p \in Procs :
           trace[p].insertCalls >= 1 =>
               \A n \in FieldNames : req[p].fields[n] \notin {Undefined, ""}

\* with a row stored, a form whose one field is the empty string has been
\* turned away and the rows are those of before
C24_Witness ==
    \E p \in Procs :
        /\ IsSubmission(p) /\ Done(p) /\ res[p].status = 400
        /\ \E n \in FieldNames : req[p].fields[n] = ""
        /\ Len(rows) >= 1 /\ rows = trace[p].rowsSeen

\* C25: however two creation requests interleave, a request answered 201
\* carries the id of exactly one row, which it inserted itself and which holds
\* its own fields and image; the ids of all 201s differ pairwise, and no
\* response carries the id of a row another request inserted.
C25_ConcurrentCreatesKeepOwnId ==
    /\ Len(rows) = Len(returned)
    /\ \A i \in 1..Len(returned) : \A j \in 1..Len(returned) :
           i # j => returned[i] # returned[j]
    /\ \A p \in Procs :
           (IsCreate(p) /\ Done(p) /\ res[p].status = 201) =>
               /\ trace[p].inserted = {res[p].schoolId}
               /\ Cardinality(RowsWithId(res[p].schoolId)) = 1
               /\ \A k \in RowsWithId(res[p].schoolId) :
                      /\ rows[k].name = req[p].fields.name
                      /\ rows[k].image = imageUrl[p]
               /\ \A q \in Procs \ {p} : res[p].schoolId \notin trace[q].inserted

\* two creations that both arrived at an empty table, so were in flight
\* together, are both answered 201; p1, which also uploaded, got the second id
C25_Witness ==
    /\ \A p \in Procs : IsCreate(p) /\ Done(p) /\ res[p].status = 201
    /\ \A p \in Procs : trace[p].rowsSeen = <<>>
    /\ res["p1"].schoolId # res["p2"].schoolId
    /\ imageUrl["p1"] # Null /\ imageUrl["p2"] = Null
    /\ res["p1"].schoolId = 2

\* the INSERT of slot p's request has failed
InsertFailed(p) ==
    trace[p].insertCalls = 1 /\ trace[p].storeErrors > trace[p].bootstrapErrors

\* C26: a creation whose upload succeeded and whose INSERT failed is answered
\* 500 and has no row; the image it uploaded is still on the host, and no row
\* refers to it.
C26_OrphanedImageStays ==
    \A p \in Procs :
        (IsCreate(p) /\ trace[p].uploadsOk = 1 /\ InsertFailed(p)) =>
            /\ Done(p)
            /\ res[p].status = 500
            /\ trace[p].inserted = {}
            /\ rows = trace[p].rowsSeen
            /\ imageUrl[p] \in IssuedUrls
            /\ \A k \in 1..Len(rows) : rows[k].image # imageUrl[p]

\* the upload of the request succeeded, its INSERT failed on an existing
\* table, and the answer is 500
C26_Witness ==
    \E p \in Procs :
        /\ IsCreate(p) /\ Done(p) /\ res[p].status = 500
        /\ trace[p].uploadsOk = 1 /\ InsertFailed(p)
        /\ tableExists /\ imageUrl[p] \in IssuedUrls

\* C27: a creation request whose image file is larger than 5 MB makes no
\* upload call and inserts no row.
C27_LargeImageRejected ==
    \A p \in Procs :
        (IsCreate(p) /\ FileMB(req[p].file) > fileSizeLimit) =>
            /\ trace[p].uploadCalls = 0
            /\ trace[p].inserted = {}

\* C28: createSchoolsTable gives back every connection it took, so with no
\* request in flight no connection is checked out, and the connections
\* checked out never reach the connectionLimit.
C28_ConnectionsReleased ==
    /\ (\A p \in Procs : pc[p] = "idle") => inUse = 0
    /\ inUse < connectionLimit

\* slot p holds a request that has no response yet
Waiting(p) == pc[p] \notin {"idle", "done"}

\* C29: with a store that answers every call, every request that has reached
\* a handler is answered in the end, whatever has failed before it.
C29_EveryRequestAnswered ==
    \A p \in Procs : Waiting(p) ~> Done(p)

\* all ten connections are checked out and a request waits at the bootstrap
\* for one: no step of it can be taken
C29_Stuck ==
    \E p \in Procs : pc[p] = "bootstrap" /\ inUse = connectionLimit

\* C30: once a fetch issued by 'Try Again' has succeeded and no fetch is in
\* flight, the page is out of the error view: it shows the directory with the
\* fetched schools and no error message.
C30_RetryLeavesErrorView ==
    (page.retries >= 1 /\ page.inFlight = 0 /\ page.last = "ok") =>
        (View(page) = "directory" /\ page.error = "")

\* the first fetch failed, one click on 'Try Again' fetched a school, and the
\* page still shows the error view
C30_StillInErrorView ==
    /\ page.retries = 1 /\ page.inFlight = 0 /\ page.last = "ok"
    /\ Len(page.schools) = 1
    /\ View(page) = "error"

====
